---- MODULE Spec2Model ----
(***************************************************************************)
(* Model of src/src/message_queue.py: class MessageBroker, a message       *)
(* broker kept in four SQLite tables (exchanges, queues, bindings,         *)
(* messages).  Every method opens its own connection, so client calls of   *)
(* different processes interleave at the granularity of SQL statements:    *)
(* a SELECT is a read of its own, and the writes of a method up to its     *)
(* commit are one step.  A method whose reads are of append-only columns   *)
(* only and that writes once is modelled as one step.                      *)
(*                                                                         *)
(* uuid.uuid4() yields an id that was never produced before.  The model    *)
(* numbers the ids each of its three call sites draws (declare_queue,      *)
(* declare_exchange, publish) in a range of its own, counted by            *)
(* uuid_count.  datetime.now() values are only                             *)
(* ever tested with IS NULL, so a timestamp column holds NULL or TS.       *)
(* Message.body, headers, content_type and delivery_mode are written once  *)
(* by publish and never read by a condition; they are left out.            *)
(***************************************************************************)
EXTENDS Integers, Sequences, FiniteSets, TLC

\* ---------------------------------------------------------------- bounds
MaxQueueUuids == 3     \* uuid4() calls of declare_queue in one behaviour
MaxExchangeUuids == 2  \* uuid4() calls of declare_exchange in one behaviour
MaxMessageUuids == 1   \* uuid4() calls of publish in one behaviour
MaxAttempts == 3       \* nack stops raising attempts here (unbounded in the code)

\* ---------------------------------------------------------------- inputs
Procs == {"c1", "c2"}
DefaultVhost == "/"
\* What the calls of Next (every method) are made with.
QueueInputs == {<<"q", "/", TRUE, FALSE>>}
                            \* declare_queue(name, vhost, durable, exclusive)
ExchangeInputs == {<<"x", "fanout", "/">>}
                            \* declare_exchange(name, type, vhost)
BindInputs == {<<"q", "x", "k", "/">>, <<"d", "x", "k", "/">>}
                            \* bind_queue(queue_name, exchange_name, routing_key, vhost)
DeadLetterInputs == {<<"q", "d">>}   \* dead_letter_queue(queue_name, dlq_name)
PublishInputs == {<<"x", "k", 1, "/">>, <<"x", "k", 5, "/">>}
                            \* publish(exchange, routing_key, priority, vhost)
ConsumeInputs == {<<"q", 1, TRUE>>, <<"q", 2, FALSE>>}
                            \* consume(queue_name, n, ack)
PurgeInputs == {"q"}        \* purge_queue(queue_name)
RequeueValues == {TRUE}     \* nack never reads requeue: FALSE behaves the same
\* What the calls of NextTopology (the methods that write the topology
\* tables) are made with.
TopologyQueueInputs == {<<"q", "/", TRUE, FALSE>>, <<"q", "/", FALSE, TRUE>>,
                        <<"q", "v", TRUE, FALSE>>}
TopologyExchangeInputs == {<<"x", "fanout", "/">>, <<"x", "direct", "/">>}
TopologyBindInputs == {<<"q", "x", "k", "/">>, <<"q", "x", "k", "v">>}
TopologyDeadLetterInputs == {<<"q", "d">>}

NULL == "NULL"
TS == "ts"
\* Ids are uuid strings in the code and numbers here; the empty string,
\* which is no uuid, is 0.
QueueUuid(n) == 100 + n      \* the nth uuid drawn at declare_queue, line 162
ExchangeUuid(n) == 200 + n   \* the nth uuid drawn at declare_exchange, line 199
MessageUuid(n) == 300 + n    \* the nth uuid drawn at publish, line 269
NoQueue == 0              \* queue_id "" of the row publish inserts
NoMessageId == 0          \* publish returns "" when the exchange is missing
NoArguments == {}         \* arguments = {} (declare_queue's default)

VARIABLES
    exchanges,    \* table exchanges: set of rows, UNIQUE(name, vhost)
    queues,       \* table queues: set of rows, UNIQUE(name, vhost)
    bindings,     \* table bindings: set of rows
    messages,     \* table messages: sequence of rows in rowid order
    uuid_count,   \* number of uuid4() values drawn so far, per call site
    pc,           \* per process: where its current call stands
    frame,        \* per process: the locals of its current call
    ret,          \* what the call that completed last returned (or raised)
    routed        \* history: per message id, the queues bound to its
                  \* exchange with a matching key when it was published

vars == <<exchanges, queues, bindings, messages, uuid_count, pc, frame, ret, routed>>

NoFrame == [op |-> "none"]
NoRet == [op |-> "none"]

\* ------------------------------------------------------------- SQL helpers
Range(s) == {s[i] : i \in 1..Len(s)}

\* Mutant of QueueByNameVhost: the lookup by name alone, as consume does it.
QueueByNameAnyVhost(name, vhost) == {r \in queues : r.name = name}

\* SELECT id FROM queues WHERE name = ? AND vhost = ?
QueueByNameVhost(name, vhost) == {r \in queues : r.name = name /\ r.vhost = vhost}

\* SELECT id FROM queues WHERE name = ?   (the rows fetchone() may yield)
QueueByName(name) == {r \in queues : r.name = name}

\* SELECT id FROM exchanges WHERE name = ? AND vhost = ?
ExchangeByNameVhost(name, vhost) == {r \in exchanges : r.name = name /\ r.vhost = vhost}

QueueRow(id, name, vhost, durable, exclusive, auto_delete, arguments) ==
    [id |-> id, name |-> name, vhost |-> vhost, durable |-> durable,
     exclusive |-> exclusive, auto_delete |-> auto_delete,
     arguments |-> arguments, message_count |-> 0, consumer_count |-> 0]

ExchangeRow(id, name, type, vhost, durable, auto_delete) ==
    [id |-> id, name |-> name, type |-> type, vhost |-> vhost,
     durable |-> durable, auto_delete |-> auto_delete]

MessageRow(id, queue_id, exchange, routing_key, priority) ==
    [id |-> id, queue_id |-> queue_id, exchange |-> exchange,
     routing_key |-> routing_key, priority |-> priority,
     acked_at |-> NULL, nacked_at |-> NULL, attempts |-> 0]

\* ------------------------------------------------------------------- Init
Init ==
    /\ exchanges = {}
    /\ queues = {}
    /\ bindings = {}
    /\ messages = <<>>
    /\ uuid_count = [queue |-> 0, exchange |-> 0, message |-> 0]
    /\ pc = [p \in Procs |-> "idle"]
    /\ frame = [p \in Procs |-> NoFrame]
    /\ ret = NoRet
    /\ routed = {}

Return(p, r) ==
    /\ pc' = [pc EXCEPT ![p] = "idle"]
    /\ frame' = [frame EXCEPT ![p] = NoFrame]
    /\ ret' = r

\* ---------------------------------------------------------- declare_queue
\* The calls that have passed declare_queue's SELECT and will draw a uuid
\* (queue_id = str(uuid.uuid4())) before their INSERT.
UuidsPending == Cardinality({p \in Procs : pc[p] \in {"dq_insert", "dlq_insert"}})

\* Mutant of DeclareQueueFoundId: a new uuid, as declare_exchange returns.
DeclareQueueFoundIdFresh(row) == QueueUuid(uuid_count.queue + 1)

\* queue_id = result[0]: the id declare_queue returns when its SELECT found a row.
DeclareQueueFoundId(row) == row.id

\* What a completed declare_queue leaves in ret: the id of the Queue object
\* it returns, and whether it took the branch that INSERTs.
DeclareQueueResult(id, inserted) ==
    [op |-> "declare_queue", status |-> "ok", id |-> id, inserted |-> inserted]

\* declare_queue up to the branch on the SELECT's result.
DeclareQueueCheck(p, name, vhost, durable, exclusive) ==
    /\ pc[p] = "idle"
    /\ LET found == QueueByNameVhost(name, vhost) IN
       IF found # {}
       THEN /\ \E row \in found :
                 Return(p, DeclareQueueResult(DeclareQueueFoundId(row), FALSE))
            /\ UNCHANGED <<exchanges, queues, bindings, messages, uuid_count, routed>>
       ELSE /\ uuid_count.queue + UuidsPending < MaxQueueUuids
            /\ pc' = [pc EXCEPT ![p] = "dq_insert"]
            /\ frame' = [frame EXCEPT ![p] =
                    [op |-> "declare_queue", name |-> name, vhost |-> vhost,
                     durable |-> durable, exclusive |-> exclusive]]
            /\ UNCHANGED <<exchanges, queues, bindings, messages, uuid_count, ret, routed>>

\* The INSERT of declare_queue and its return; UNIQUE(name, vhost) makes the
\* INSERT raise sqlite3.IntegrityError when another call inserted meanwhile.
DeclareQueueInsert(p) ==
    /\ pc[p] = "dq_insert"
    /\ uuid_count' = [uuid_count EXCEPT !.queue = @ + 1]
    /\ LET f == frame[p]
           queue_id == QueueUuid(uuid_count.queue + 1) IN
       IF QueueByNameVhost(f.name, f.vhost) # {}
       THEN /\ Return(p, [op |-> "declare_queue", status |-> "IntegrityError"])
            /\ queues' = queues
       ELSE /\ queues' = queues \cup
                    {QueueRow(queue_id, f.name, f.vhost, f.durable, f.exclusive,
                              FALSE, NoArguments)}
            /\ Return(p, DeclareQueueResult(queue_id, TRUE))
    /\ UNCHANGED <<exchanges, bindings, messages, routed>>

\* ------------------------------------------------------- declare_exchange
\* The id of the Exchange object declare_exchange returns: the uuid it drew,
\* whether or not its INSERT was ignored.
DeclareExchangeId(exchange_id, stored) == exchange_id

\* INSERT OR IGNORE INTO exchanges: ignored when (name, vhost) is taken.
InsertOrIgnoreExchange(row) ==
    IF ExchangeByNameVhost(row.name, row.vhost) # {} THEN exchanges
    ELSE exchanges \cup {row}

DeclareExchange(p, name, type, vhost) ==
    /\ pc[p] = "idle"
    /\ uuid_count.exchange < MaxExchangeUuids
    /\ uuid_count' = [uuid_count EXCEPT !.exchange = @ + 1]
    /\ LET exchange_id == ExchangeUuid(uuid_count.exchange + 1)
           stored == ExchangeByNameVhost(name, vhost) IN
       /\ exchanges' = InsertOrIgnoreExchange(
                           ExchangeRow(exchange_id, name, type, vhost, TRUE, FALSE))
       /\ Return(p, [op |-> "declare_exchange", status |-> "ok",
                     id |-> DeclareExchangeId(exchange_id, stored)])
    /\ UNCHANGED <<queues, bindings, messages, routed>>

\* ------------------------------------------------------------- bind_queue
BindQueue(p, queue_name, exchange_name, routing_key, vhost) ==
    /\ pc[p] = "idle"
    /\ LET queue_result == QueueByNameVhost(queue_name, vhost)
           exchange_result == ExchangeByNameVhost(exchange_name, vhost) IN
       IF queue_result # {} /\ exchange_result # {}
       THEN /\ \E q \in queue_result, e \in exchange_result :
                 bindings' = bindings \cup
                    {[queue_id |-> q.id, exchange_id |-> e.id,
                      routing_key |-> routing_key, vhost |-> vhost]}
            /\ Return(p, [op |-> "bind_queue", value |-> TRUE])
       ELSE /\ bindings' = bindings
            /\ Return(p, [op |-> "bind_queue", value |-> FALSE])
    /\ UNCHANGED <<exchanges, queues, messages, uuid_count, routed>>

\* ---------------------------------------------------------------- publish
\* Section 4.2 of the specification (the Router contract; the code has no
\* router): the queues whose binding to exchange row e matches routing_key.
\* Used only for the history variable routed, which no action reads.
RouterRoute(e, routing_key) ==
    {b.queue_id : b \in {c \in bindings : /\ c.exchange_id = e.id
                                          /\ \/ e.type = "fanout"
                                             \/ c.routing_key = routing_key}}

\* The queue_id of the row publish inserts.
PublishQueueId(e, routing_key) == NoQueue

Publish(p, exchange, routing_key, priority, vhost) ==
    /\ pc[p] = "idle"
    /\ uuid_count.message < MaxMessageUuids
    /\ uuid_count' = [uuid_count EXCEPT !.message = @ + 1]
    /\ LET message_id == MessageUuid(uuid_count.message + 1)
           exchange_result == ExchangeByNameVhost(exchange, vhost) IN
       IF exchange_result = {}
       THEN /\ Return(p, [op |-> "publish", value |-> NoMessageId])
            /\ UNCHANGED <<messages, routed>>
       ELSE \E e \in exchange_result :
            /\ messages' = Append(messages,
                    MessageRow(message_id, PublishQueueId(e, routing_key), exchange,
                               routing_key, priority))
            /\ routed' = routed \cup {<<message_id, q>> : q \in RouterRoute(e, routing_key)}
            /\ Return(p, [op |-> "publish", value |-> message_id])
    /\ UNCHANGED <<exchanges, queues, bindings>>

\* ---------------------------------------------------------------- consume
\* The first n elements of sequence s.
Limit(s, n) == SubSeq(s, 1, IF Len(s) < n THEN Len(s) ELSE n)

\* SELECT ... FROM messages WHERE queue_id = ? AND acked_at IS NULL AND
\* nacked_at IS NULL LIMIT ?   (no ORDER BY: a table scan, rowid order)
SelectReady(queue_id, n) ==
    LET Ready(m) == m.queue_id = queue_id /\ m.acked_at = NULL /\ m.nacked_at = NULL
    IN Limit(SelectSeq(messages, Ready), n)

\* consume up to its first SELECT: the queue looked up by name alone.
ConsumeLookup(p, queue_name, n, ack) ==
    /\ pc[p] = "idle"
    /\ LET queue_result == QueueByName(queue_name) IN
       IF queue_result = {}
       THEN Return(p, [op |-> "consume", value |-> <<>>])
       ELSE /\ \E row \in queue_result :
                 frame' = [frame EXCEPT ![p] =
                    [op |-> "consume", queue_id |-> row.id, n |-> n, ack |-> ack]]
            /\ pc' = [pc EXCEPT ![p] = "consume_select"]
            /\ ret' = ret
    /\ UNCHANGED <<exchanges, queues, bindings, messages, uuid_count, routed>>

\* The second SELECT of consume: rows = cursor.fetchall().
ConsumeSelect(p) ==
    /\ pc[p] = "consume_select"
    /\ LET f == frame[p] IN
       frame' = [frame EXCEPT ![p] =
            [op |-> "consume", queue_id |-> f.queue_id, n |-> f.n, ack |-> f.ack,
             rows |-> SelectReady(f.queue_id, f.n)]]
    /\ pc' = [pc EXCEPT ![p] = "consume_update"]
    /\ UNCHANGED <<exchanges, queues, bindings, messages, uuid_count, ret, routed>>

\* UPDATE messages SET acked_at = ? WHERE id = ?, for every id of ids.
MarkAcked(ids) ==
    [i \in 1..Len(messages) |->
        IF messages[i].id \in ids THEN [messages[i] EXCEPT !.acked_at = TS]
        ELSE messages[i]]

\* The loop over rows, the commit and the return of consume.
ConsumeFinish(p) ==
    /\ pc[p] = "consume_update"
    /\ LET f == frame[p] IN
       /\ messages' = IF f.ack THEN MarkAcked({m.id : m \in Range(f.rows)})
                      ELSE messages
       /\ Return(p, [op |-> "consume", value |-> f.rows])
    /\ UNCHANGED <<exchanges, queues, bindings, uuid_count, routed>>

\* ------------------------------------------------------------------- nack
\* Mutant of NackRow: attempts set to 1 instead of raised by 1.
NackRowReset(m) == [m EXCEPT !.nacked_at = TS, !.attempts = 1]

\* UPDATE messages SET nacked_at = ?, attempts = attempts + 1 WHERE id = ?
NackRow(m) == [m EXCEPT !.nacked_at = TS, !.attempts = m.attempts + 1]

\* The ids nack is called with: those publish has returned so far ("" when
\* the exchange was missing).
NackInputs == {NoMessageId} \cup {MessageUuid(n) : n \in 1..uuid_count.message}

Nack(p, message_id, requeue) ==
    /\ pc[p] = "idle"
    /\ \A i \in 1..Len(messages) :
          messages[i].id = message_id => messages[i].attempts < MaxAttempts
    /\ messages' = [i \in 1..Len(messages) |->
                      IF messages[i].id = message_id THEN NackRow(messages[i])
                      ELSE messages[i]]
    /\ Return(p, [op |-> "nack", value |-> TRUE])
    /\ UNCHANGED <<exchanges, queues, bindings, uuid_count, routed>>

\* ------------------------------------------------------------ purge_queue
\* DELETE FROM messages WHERE queue_id = ?: the rows that stay.
PurgeKeeps(m, queue_id) == m.queue_id # queue_id

PurgeQueue(p, queue_name) ==
    /\ pc[p] = "idle"
    /\ LET result == QueueByName(queue_name) IN
       IF result = {}
       THEN /\ messages' = messages
            /\ Return(p, [op |-> "purge_queue", value |-> 0])
       ELSE \E row \in result :
            LET Keeps(m) == PurgeKeeps(m, row.id)
                kept == SelectSeq(messages, Keeps) IN
            /\ messages' = kept
            /\ Return(p, [op |-> "purge_queue", value |-> Len(messages) - Len(kept)])
    /\ UNCHANGED <<exchanges, queues, bindings, uuid_count, routed>>

\* ------------------------------------------------------ dead_letter_queue
\* The arguments dead_letter_queue stores: {"x-dead-letter-queue": dlq_name}.
DeadLetterArguments(dlq_name) == {<<"x-dead-letter-queue", dlq_name>>}

\* dead_letter_queue up to the SELECT of its call self.declare_queue(dlq_name).
DeadLetterDeclare(p, queue_name, dlq_name) ==
    /\ pc[p] = "idle"
    /\ IF QueueByNameVhost(dlq_name, DefaultVhost) # {}
       THEN /\ pc' = [pc EXCEPT ![p] = "dlq_update"]
            /\ frame' = [frame EXCEPT ![p] =
                    [op |-> "dead_letter_queue", queue_name |-> queue_name,
                     dlq_name |-> dlq_name]]
       ELSE /\ uuid_count.queue + UuidsPending < MaxQueueUuids
            /\ pc' = [pc EXCEPT ![p] = "dlq_insert"]
            /\ frame' = [frame EXCEPT ![p] =
                    [op |-> "dead_letter_queue", queue_name |-> queue_name,
                     dlq_name |-> dlq_name]]
    /\ UNCHANGED <<exchanges, queues, bindings, messages, uuid_count, ret, routed>>

\* The INSERT of that declare_queue(dlq_name): defaults vhost "/", durable,
\* not exclusive.  An IntegrityError leaves dead_letter_queue by exception.
DeadLetterInsert(p) ==
    /\ pc[p] = "dlq_insert"
    /\ uuid_count' = [uuid_count EXCEPT !.queue = @ + 1]
    /\ LET f == frame[p]
           queue_id == QueueUuid(uuid_count.queue + 1) IN
       IF QueueByNameVhost(f.dlq_name, DefaultVhost) # {}
       THEN /\ Return(p, [op |-> "dead_letter_queue", status |-> "IntegrityError"])
            /\ queues' = queues
       ELSE /\ queues' = queues \cup
                    {QueueRow(queue_id, f.dlq_name, DefaultVhost, TRUE, FALSE,
                              FALSE, NoArguments)}
            /\ pc' = [pc EXCEPT ![p] = "dlq_update"]
            /\ frame' = [frame EXCEPT ![p] =
                    [op |-> "dead_letter_queue", queue_name |-> f.queue_name,
                     dlq_name |-> f.dlq_name]]
            /\ ret' = ret
    /\ UNCHANGED <<exchanges, bindings, messages, routed>>

\* SELECT id FROM queues WHERE name = ?, and the UPDATE of its arguments.
DeadLetterUpdate(p) ==
    /\ pc[p] = "dlq_update"
    /\ LET f == frame[p]
           result == QueueByName(f.queue_name) IN
       IF result # {}
       THEN \E row \in result :
            /\ queues' = (queues \ {row}) \cup
                    {[row EXCEPT !.arguments = DeadLetterArguments(f.dlq_name)]}
            /\ Return(p, [op |-> "dead_letter_queue", status |-> "ok", value |-> TRUE])
       ELSE /\ queues' = queues
            /\ Return(p, [op |-> "dead_letter_queue", status |-> "ok", value |-> FALSE])
    /\ UNCHANGED <<exchanges, bindings, messages, uuid_count, routed>>

\* ---------------------------------------------------------- get_pending_dlq
DeadLetterThreshold == 3

\* get_pending_dlq(dlq_name): the ids of the rows its second SELECT yields,
\* for the queue row its first SELECT yielded.
GetPendingDlq(row) ==
    {m.id : m \in {x \in Range(messages) :
                      x.queue_id = row.id /\ x.attempts >= DeadLetterThreshold}}

\* ------------------------------------------------------------------- Next
\* Every method of MessageBroker that writes a table or returns a delivery.
Next ==
    \E p \in Procs :
       \/ \E i \in QueueInputs : DeclareQueueCheck(p, i[1], i[2], i[3], i[4])
       \/ DeclareQueueInsert(p)
       \/ \E i \in ExchangeInputs : DeclareExchange(p, i[1], i[2], i[3])
       \/ \E i \in BindInputs : BindQueue(p, i[1], i[2], i[3], i[4])
       \/ \E i \in PublishInputs : Publish(p, i[1], i[2], i[3], i[4])
       \/ \E i \in ConsumeInputs : ConsumeLookup(p, i[1], i[2], i[3])
       \/ ConsumeSelect(p)
       \/ ConsumeFinish(p)
       \/ \E id \in NackInputs, requeue \in RequeueValues : Nack(p, id, requeue)
       \/ \E qn \in PurgeInputs : PurgeQueue(p, qn)
       \/ \E i \in DeadLetterInputs : DeadLetterDeclare(p, i[1], i[2])
       \/ DeadLetterInsert(p)
       \/ DeadLetterUpdate(p)

Spec == Init /\ [][Next]_vars

\* The methods that write the tables exchanges, queues and bindings.  They
\* read no column of messages, and no other method writes those tables, so
\* what Spec can do to the topology is what SpecTopology can do to it.
NextTopology ==
    \E p \in Procs :
       \/ \E i \in TopologyQueueInputs : DeclareQueueCheck(p, i[1], i[2], i[3], i[4])
       \/ DeclareQueueInsert(p)
       \/ \E i \in TopologyExchangeInputs : DeclareExchange(p, i[1], i[2], i[3])
       \/ \E i \in TopologyBindInputs : BindQueue(p, i[1], i[2], i[3], i[4])
       \/ \E i \in TopologyDeadLetterInputs : DeadLetterDeclare(p, i[1], i[2])
       \/ DeadLetterInsert(p)
       \/ DeadLetterUpdate(p)

SpecTopology == Init /\ [][NextTopology]_vars

\* Spec with consumers that keep receiving: a method that was called runs to
\* its return, and a process that is again and again free to call consume
\* does call it.
ConsumeStarts(p) == \E i \in ConsumeInputs : ConsumeLookup(p, i[1], i[2], i[3])

MethodRuns(p) ==
    \/ DeclareQueueInsert(p)
    \/ ConsumeSelect(p)
    \/ ConsumeFinish(p)
    \/ DeadLetterInsert(p)
    \/ DeadLetterUpdate(p)

FairSpec ==
    /\ Spec
    /\ \A p \in Procs : WF_vars(MethodRuns(p)) /\ SF_vars(ConsumeStarts(p))

\* =================================================================== claims
\* Row of queues has the flags of a declaration.
SameFlags(row, durable, exclusive) ==
    row.durable = durable /\ row.exclusive = exclusive

\* The rows of a table (queues or exchanges) that have the key (name, vhost).
RowsOf(table, name, vhost) == {r \in table : r.name = name /\ r.vhost = vhost}

\* C7: declare_queue is idempotent.  A declaration that inserts returns the id
\* of the row it stored; a later declaration of the same (name, vhost) with
\* the same flags returns the id of that stored row, completes without an
\* error and leaves the table queues as it was, with exactly one row for
\* (name, vhost).
C7_DeclareQueueIdempotent ==
    [][\A p \in Procs :
        /\ (DeclareQueueInsert(p) /\ ret'.status = "ok") =>
              /\ Cardinality(RowsOf(queues', frame[p].name, frame[p].vhost)) = 1
              /\ \A row \in RowsOf(queues', frame[p].name, frame[p].vhost) :
                    ret'.id = row.id
        /\ \A i \in TopologyQueueInputs :
              \A row \in QueueByNameVhost(i[1], i[2]) :
                 (DeclareQueueCheck(p, i[1], i[2], i[3], i[4]) /\ SameFlags(row, i[3], i[4])) =>
                    /\ ret'.op = "declare_queue"
                    /\ ret'.status = "ok"
                    /\ ret'.id = row.id
                    /\ queues' = queues
                    /\ Cardinality(RowsOf(queues', i[1], i[2])) = 1
      ]_vars

\* C7 witness: a declare_queue that found its queue declared has returned the
\* id of the one row stored for a queue.
C7_Witness ==
    /\ ret.op = "declare_queue"
    /\ ret.status = "ok"
    /\ ~ret.inserted
    /\ \E row \in queues : row.id = ret.id

\* C8: declare_exchange is idempotent: declaring an existing (name, vhost)
\* again with the stored type returns the stored exchange's id and leaves
\* exactly one row for (name, vhost).
C8_DeclareExchangeIdempotent ==
    [][\A p \in Procs, i \in TopologyExchangeInputs :
        \A row \in ExchangeByNameVhost(i[1], i[3]) :
           (DeclareExchange(p, i[1], i[2], i[3]) /\ row.type = i[2]) =>
              /\ ret'.id = row.id
              /\ exchanges' = exchanges
              /\ Cardinality(RowsOf(exchanges', i[1], i[3])) = 1
      ]_vars

\* C9: declaring an existing exchange (name, vhost) with another type fails
\* with Conflict and leaves the stored exchange unchanged.
C9_ExchangeTypeConflict ==
    [][\A p \in Procs, i \in TopologyExchangeInputs :
        \A row \in ExchangeByNameVhost(i[1], i[3]) :
           (DeclareExchange(p, i[1], i[2], i[3]) /\ row.type # i[2]) =>
              /\ ret'.status = "Conflict"
              /\ exchanges' = exchanges
      ]_vars

\* C10: declaring an existing queue (name, vhost) with another durable or
\* exclusive flag fails with Conflict and leaves the stored queue unchanged.
C10_QueueFlagConflict ==
    [][\A p \in Procs, i \in TopologyQueueInputs :
        \A row \in QueueByNameVhost(i[1], i[2]) :
           (DeclareQueueCheck(p, i[1], i[2], i[3], i[4]) /\ ~SameFlags(row, i[3], i[4])) =>
              /\ ret'.status = "Conflict"
              /\ queues' = queues
      ]_vars

\* ---------------------------------------------------- claims on delivery
\* The code never sets the queue_id of a message, so "the messages of queue
\* Q" is read from what publish was asked to do: the messages that were
\* published to an exchange with a matching binding to Q (routed).  No step
\* of the code delivers or removes such a message, so one with neither
\* acked_at nor nacked_at set has not left the state "ready".
ReadyByContract(queue_id) ==
    LET Ready(m) == /\ <<m.id, queue_id>> \in routed
                    /\ m.acked_at = NULL
                    /\ m.nacked_at = NULL
    IN SelectSeq(messages, Ready)

\* Sequence s without its ith element.
Without(s, i) == SubSeq(s, 1, i - 1) \o SubSeq(s, i + 1, Len(s))

\* Sequence s of messages ordered by descending priority, equal priorities
\* in the order of s.
RECURSIVE PriorityOrder(_)
PriorityOrder(s) ==
    IF s = <<>> THEN <<>>
    ELSE LET i == CHOOSE k \in 1..Len(s) :
                     \A j \in 1..Len(s) :
                        \/ s[j].priority < s[k].priority
                        \/ s[j].priority = s[k].priority /\ k <= j
         IN <<s[i]>> \o PriorityOrder(Without(s, i))

PrioritiesOf(s) == [k \in 1..Len(s) |-> s[k].priority]

\* C2: a message of a queue that was nacked with requeue while its attempts
\* are below the dead-letter threshold is eventually returned by a consume,
\* when consumers keep receiving from that queue.
C2_NackedRedelivered ==
    \A id \in {MessageUuid(n) : n \in 1..MaxMessageUuids} :
       (\E i \in DOMAIN messages :
           /\ messages[i].id = id
           /\ messages[i].nacked_at # NULL
           /\ messages[i].attempts < DeadLetterThreshold
           /\ \E c \in ConsumeInputs : \E q \in QueueByName(c[1]) :
                 <<id, q.id>> \in routed)
       ~> (ret.op = "consume" /\ \E k \in DOMAIN ret.value : ret.value[k].id = id)

\* C3: the third nack (requeue = true) of a message of queue Q, which has the
\* dead-letter queue D configured, leaves the message owned by D, with
\* attempts 3 and its routing key; get_pending_dlq(D) then yields it.
C3_DeadLetterOnThirdNack ==
    [][\A p \in Procs, id \in NackInputs :
        \A i \in DOMAIN messages, Q \in queues, D \in queues :
           ( /\ Nack(p, id, TRUE)
             /\ messages[i].id = id
             /\ messages[i].attempts = DeadLetterThreshold - 1
             /\ <<id, Q.id>> \in routed
             /\ Q.arguments = DeadLetterArguments(D.name)
             /\ D.id # Q.id ) =>
           \E j \in DOMAIN messages' :
              /\ messages'[j].id = id
              /\ messages'[j].queue_id = D.id
              /\ messages'[j].attempts = DeadLetterThreshold
              /\ messages'[j].routing_key = messages[i].routing_key
              /\ messages'[j].attempts >= DeadLetterThreshold
      ]_vars

\* C4: a publish to an existing exchange whose bindings match N >= 1 queues
\* adds exactly N message rows, one owned by each matching queue, with
\* distinct ids and attempts 0.
C4_PublishFanOut ==
    [][\A p \in Procs, i \in PublishInputs :
        \A e \in ExchangeByNameVhost(i[1], i[4]) :
           (Publish(p, i[1], i[2], i[3], i[4]) /\ RouterRoute(e, i[2]) # {}) =>
              LET new == SubSeq(messages', Len(messages) + 1, Len(messages'))
                  target == RouterRoute(e, i[2]) IN
              /\ Len(new) = Cardinality(target)
              /\ \A q \in target :
                    Cardinality({k \in DOMAIN new : new[k].queue_id = q}) = 1
              /\ \A k \in DOMAIN new : new[k].attempts = 0
              /\ \A j, k \in DOMAIN new : j # k => new[j].id # new[k].id
      ]_vars

\* C5: the rows consume selects (and then returns, see ConsumeFinish) are the
\* n ready messages of the queue of highest priority, in descending priority,
\* equal priorities in publish order.
C5_PriorityOrder ==
    [][\A p \in Procs :
        ConsumeSelect(p) =>
           PrioritiesOf(frame'[p].rows) =
              PrioritiesOf(Limit(PriorityOrder(ReadyByContract(frame[p].queue_id)),
                                 frame[p].n))
      ]_vars

\* C6: purge_queue of a queue returns the number of its ready messages,
\* removes exactly those and leaves every other message as it was.
C6_PurgeReadyOnly ==
    [][\A p \in Procs, qn \in PurgeInputs :
        \A row \in QueueByName(qn) :
           (PurgeQueue(p, qn) /\ QueueByName(qn) = {row}) =>
              LET ready == Range(ReadyByContract(row.id)) IN
              /\ ret'.value = Cardinality(ready)
              /\ \A m \in ready : m \notin Range(messages')
              /\ \A m \in Range(messages) \ ready : m \in Range(messages')
      ]_vars

\* ------------------------------------------------- claims on error handling
\* C11: bind_queue(queue, exchange, routing_key, vhost) reports success exactly
\* when a queue of that name and an exchange of that name both exist in that
\* vhost; when it reports failure the bindings are unchanged, and when it
\* reports success the binding of those two rows is stored.
C11_BindNeedsBothEndpoints ==
    [][\A p \in Procs, i \in TopologyBindInputs :
        BindQueue(p, i[1], i[2], i[3], i[4]) =>
           LET qs == RowsOf(queues, i[1], i[4])
               es == RowsOf(exchanges, i[2], i[4]) IN
           /\ ret'.op = "bind_queue"
           /\ ret'.value = (qs # {} /\ es # {})
           /\ (qs = {} \/ es = {}) => bindings' = bindings
           /\ (qs # {} /\ es # {}) =>
                 \E q \in qs, e \in es, b \in bindings' :
                    /\ b.queue_id = q.id /\ b.exchange_id = e.id
                    /\ b.routing_key = i[3] /\ b.vhost = i[4]
      ]_vars

\* A bind has reported failure although a queue "q" and an exchange "x" exist:
\* they are in different vhosts only.
C11_Witness ==
    /\ ret.op = "bind_queue" /\ ret.value = FALSE
    /\ \E q \in queues, e \in exchanges : q.name = "q" /\ e.name = "x"
    /\ \A q \in queues, e \in exchanges :
          (q.name = "q" /\ e.name = "x") => q.vhost # e.vhost

\* C12: a publish to a missing exchange reports failure and stores nothing; a
\* publish to an existing exchange succeeds, and when no binding matches, what
\* it returns tells the caller that there were zero deliveries.
C12_PublishReportsZeroDeliveries ==
    [][\A p \in Procs, i \in PublishInputs :
        Publish(p, i[1], i[2], i[3], i[4]) =>
           IF ExchangeByNameVhost(i[1], i[4]) = {}
           THEN ret'.value = NoMessageId /\ messages' = messages
           ELSE \A e \in ExchangeByNameVhost(i[1], i[4]) :
                /\ ret'.value # NoMessageId
                /\ RouterRoute(e, i[2]) = {} =>
                      /\ "deliveries" \in DOMAIN ret'
                      /\ ret'.deliveries = 0
      ]_vars

\* C13: a message of a queue that is neither acked nor nacked does not stay
\* as it was published while consumers keep receiving from that queue: a
\* receive delivers it, and from then on it is acked, nacked or, once the
\* visibility timeout has elapsed, ready again with attempts raised by 1.
C13_VisibilityTimeout ==
    \A id \in {MessageUuid(n) : n \in 1..MaxMessageUuids} :
       (\E i \in DOMAIN messages :
           /\ messages[i].id = id
           /\ messages[i].acked_at = NULL
           /\ messages[i].nacked_at = NULL
           /\ messages[i].attempts = 0
           /\ \E c \in ConsumeInputs : \E q \in QueueByName(c[1]) :
                 <<id, q.id>> \in routed)
       ~> (\A i \in DOMAIN messages :
              messages[i].id = id =>
                 \/ messages[i].attempts >= 1
                 \/ messages[i].acked_at # NULL
                 \/ messages[i].nacked_at # NULL)

\* C14: dead_letter_queue(queue_name, dlq_name) creates no queue; when the
\* source queue or the dead-letter queue is absent it fails with NotFound and
\* leaves the queues as they are; when both exist it changes nothing but the
\* arguments of the source queue.
C14_DeadLetterNotFound ==
    [][\A p \in Procs :
        /\ DeadLetterInsert(p) => queues' = queues
        /\ DeadLetterUpdate(p) =>
              LET source == QueueByName(frame[p].queue_name)
                  dlq == QueueByName(frame[p].dlq_name) IN
              IF source = {} \/ dlq = {}
              THEN ret'.status = "NotFound" /\ queues' = queues
              ELSE /\ ret'.status = "ok"
                   /\ \A row \in queues : row \notin source => row \in queues'
                   /\ \A row \in queues' :
                         \/ row \in queues
                         \/ \E old \in source :
                               row = [old EXCEPT !.arguments =
                                         DeadLetterArguments(frame[p].dlq_name)]
      ]_vars

\* ------------------------------------------------------ claims on the state
\* The messages of a queue (read from routed, as above) that are not
\* finalized: neither acked nor dead-lettered.
NotFinalized(queue_id) ==
    {m \in Range(messages) : /\ <<m.id, queue_id>> \in routed
                             /\ m.acked_at = NULL
                             /\ m.attempts < DeadLetterThreshold}

\* C15: the stored message_count of every queue is the number of its messages
\* that are ready or unacked.
C15_MessageCount ==
    \A q \in queues : q.message_count = Cardinality(NotFinalized(q.id))

\* C17: a declare_queue that raced with another declaration of the same
\* (name, vhost) and the same flags still completes successfully, with the id of the one row that
\* is stored for (name, vhost).
C17_ConcurrentDeclare ==
    [][\A p \in Procs :
        ( /\ DeclareQueueInsert(p)
          /\ \A old \in RowsOf(queues, frame[p].name, frame[p].vhost) :
                SameFlags(old, frame[p].durable, frame[p].exclusive) ) =>
           /\ ret'.op = "declare_queue" /\ ret'.status = "ok"
           /\ Cardinality(RowsOf(queues', frame[p].name, frame[p].vhost)) = 1
           /\ \A row \in RowsOf(queues', frame[p].name, frame[p].vhost) :
                 /\ ret'.id = row.id
                 /\ \A old \in RowsOf(queues, frame[p].name, frame[p].vhost) :
                       old.id = row.id
      ]_vars

\* C18: the queue_id of every stored message is the id of a declared queue.
C18_MessageBelongsToQueue ==
    \A i \in DOMAIN messages : \E q \in queues : q.id = messages[i].queue_id

\* C19: for every message that exists before and after a step, attempts does
\* not decrease; it changes only in a nack of that message; and a nack of
\* that message raises it by exactly 1.
C19_AttemptsOnlyIncrease ==
    [][\A i \in DOMAIN messages, j \in DOMAIN messages' :
        messages'[j].id = messages[i].id =>
           LET before == messages[i].attempts
               after == messages'[j].attempts
               nacked == \E p \in Procs : Nack(p, messages[i].id, TRUE) IN
           /\ after >= before
           /\ after # before => nacked
           /\ nacked => after = before + 1
      ]_vars

\* A message has been nacked more than once.
C19_Witness ==
    /\ ret.op = "nack"
    /\ \E i \in DOMAIN messages :
          messages[i].attempts >= 2 /\ messages[i].nacked_at # NULL

\* C20: when queues of one name exist in more than one vhost, a
\* dead_letter_queue call for that name, which declares its dead-letter queue
\* in the default vhost, changes no queue of another vhost.
C20_VhostIsolation ==
    [][\A p \in Procs :
        ( /\ DeadLetterUpdate(p)
          /\ \E a, b \in QueueByName(frame[p].queue_name) : a.vhost # b.vhost ) =>
           \A row \in queues : row.vhost # DefaultVhost => row \in queues'
      ]_vars
====
